---- MODULE Spec2Model ----
(***************************************************************************)
(* Model of pkg/kv/awskms/awskms.go: a kv.Service decorator that encrypts  *)
(* values with AWS KMS before handing them to an inner kv.Service and      *)
(* decrypts them after reading them back.                                  *)
(*                                                                         *)
(* The inner store and the KMS client are collaborators outside the        *)
(* package.  Each call the decorator makes to one of them is one step of   *)
(* the calling goroutine, and its outcome is chosen among the outcomes the *)
(* collaborator can produce (success, a genuine rejection, or a fault).    *)
(***************************************************************************)
EXTENDS Integers, Sequences, FiniteSets, TLC

\* Longest plaintext a caller hands to Set.
MaxLen == 2

(***************************************************************************)
(* Values                                                                  *)
(***************************************************************************)

\* Bytes callers use in plaintexts: space and the letter a.
Alphabet == {32, 97}

RECURSIVE SeqsUpTo(_)
SeqsUpTo(n) ==
    IF n = 0 THEN {<< >>}
    ELSE LET shorter == SeqsUpTo(n - 1)
         IN  shorter \cup {Append(s, b) : s \in {t \in shorter : Len(t) = n - 1}, b \in Alphabet}

Plaintexts == SeqsUpTo(MaxLen)

Keys == {"k1", "k2"}
Procs == {"p1", "p2"}
Inst == {"i1", "i2"}

\* A Go error is nil or a chain of messages, outermost first.
Nil == << >>

\* A Go map[string]string / map[string]*string: nil or a finite function.
EmptyFn == [x \in {} |-> ""]
NilMap == [isNil |-> TRUE, m |-> EmptyFn]
GoMap(f) == [isNil |-> FALSE, m |-> f]

\* aws.StringMap: a fresh, non-nil map holding a pointer to a copy of each value.
StringMap(src) == [isNil |-> FALSE, m |-> [x \in DOMAIN src.m |-> src.m[x]]]

\* errors.WrapIf: nil stays nil, anything else is annotated with the message.
WrapIf(err, msg) == IF err = Nil THEN Nil ELSE <<msg>> \o err

MsgGet == "failed to get data for KMS client"
MsgDecrypt == "failed to decrypt with KMS client"
MsgEncrypt == "failed to encrypt with KMS client"

\* strings.TrimSpace on ASCII text: the bytes the asciiSpace table marks.
AsciiSpace == {9, 10, 11, 12, 13, 32}

RECURSIVE TrimLeft(_)
TrimLeft(s) ==
    IF s # << >> /\ Head(s) \in AsciiSpace THEN TrimLeft(Tail(s)) ELSE s

RECURSIVE TrimRight(_)
TrimRight(s) ==
    IF s # << >> /\ s[Len(s)] \in AsciiSpace
    THEN TrimRight(SubSeq(s, 1, Len(s) - 1))
    ELSE s

TrimSpace(s) == TrimRight(TrimLeft(s))

(***************************************************************************)
(* Construction                                                            *)
(***************************************************************************)

\* A *session.Session: nil, or a session for a region.
NilSession == [isNil |-> TRUE, region |-> ""]
Session(region) == [isNil |-> FALSE, region |-> region]

\* The nil kv.Service a failed constructor returns.
NoSvc == [store |-> "nil", kmsService |-> NilSession, kmsID |-> "", encryptionContext |-> NilMap]

\* The awsKMS struct literal: the four fields of an instance.
awsKMS(store, kmsService, kmsID, encryptionContext) ==
    [store |-> store, kmsService |-> kmsService, kmsID |-> kmsID,
     encryptionContext |-> encryptionContext]

\* The message of errors.Errorf("invalid kmsID specified: '%s'", kmsID).
InvalidKmsID(kmsID) == <<"invalid kmsID specified: '" \o kmsID \o "'">>

\* NewWithSession: the kmsID check comes first; kms.New(sess) dereferences
\* the session, so a nil session panics once the check has passed.
NewWithSession(sess, store, kmsID, encryptionContext) ==
    IF kmsID = ""
    THEN [outcome |-> "error", ret |-> NoSvc, err |-> InvalidKmsID(kmsID)]
    ELSE IF sess.isNil
    THEN [outcome |-> "panic", ret |-> NoSvc, err |-> Nil]
    ELSE [outcome |-> "ok",
          ret |-> awsKMS(store, sess, kmsID, StringMap(encryptionContext)),
          err |-> Nil]

\* New: session.Must(session.NewSession(...)) panics when the session cannot
\* be created (sessErr # Nil), before NewWithSession is reached.
New(store, region, kmsID, encryptionContext, sessErr) ==
    IF sessErr # Nil
    THEN [outcome |-> "panic", ret |-> NoSvc, err |-> Nil]
    ELSE NewWithSession(Session(region), store, kmsID, encryptionContext)

KmsIDs == {"", "alias/test-key", "alias/other-key"}
Regions == {"", "eu-west-1"}
Stores == {"nil", "s1"}
Sessions == {NilSession} \cup {Session(r) : r \in Regions}
CtxA == GoMap([x \in {"env"} |-> "prod"])
CtxB == GoMap([x \in {"env"} |-> "test"])
Contexts == {NilMap, GoMap(EmptyFn), CtxA, CtxB}
\* What session.NewSession can answer: a session, or an error from the
\* process environment (unreadable CA bundle, malformed shared config).
SessionErrs == {Nil, <<"LoadCustomCABundleError">>}

(***************************************************************************)
(* The remote service and the inner store                                  *)
(***************************************************************************)

\* A ciphertext names the key it was made with and binds plaintext and context.
Blob(keyId, pt, ctx) == [key |-> keyId, pt |-> pt, ctx |-> ctx]
\* A nil []byte where a ciphertext is expected.
NoBlob == Blob("", << >>, EmptyFn)

KmsFaults == {<<"ThrottlingException">>}
StoreGetFaults == {<<"inner store unavailable">>}
\* An inner store may itself be a decorator of this package.
StoreSetFaults == {<<"inner store unavailable">>, <<MsgEncrypt, "ThrottlingException">>}

\* Mutant of EncryptInput: the request is built without the encryption context.
EncryptInputNoContext(a, plainText) ==
    [KeyId |-> a.kmsID, Plaintext |-> plainText,
     EncryptionContext |-> NilMap, GrantTokens |-> << >>]

\* kms.EncryptInput as encrypt builds it.
EncryptInput(a, plainText) ==
    [KeyId |-> a.kmsID, Plaintext |-> plainText,
     EncryptionContext |-> a.encryptionContext, GrantTokens |-> << >>]

\* kms.DecryptInput as decrypt builds it.
DecryptInput(a, cipherText) ==
    [CiphertextBlob |-> cipherText,
     EncryptionContext |-> a.encryptionContext, GrantTokens |-> << >>]

\* The answers a.kmsService.Encrypt can give to a request.
KmsEncrypt(in) ==
    {[CiphertextBlob |-> Blob(in.KeyId, in.Plaintext, in.EncryptionContext.m),
      err |-> Nil, fault |-> FALSE]}
    \cup {[CiphertextBlob |-> NoBlob, err |-> e, fault |-> TRUE] : e \in KmsFaults}

\* The answers a.kmsService.Decrypt can give: the service rejects a
\* ciphertext whose bound context differs from the request's.
KmsDecrypt(in) ==
    {IF in.CiphertextBlob # NoBlob
        /\ in.CiphertextBlob.ctx = in.EncryptionContext.m
     THEN [Plaintext |-> in.CiphertextBlob.pt, err |-> Nil, fault |-> FALSE]
     ELSE [Plaintext |-> << >>, err |-> <<"InvalidCiphertextException">>, fault |-> FALSE]}
    \cup {[Plaintext |-> << >>, err |-> e, fault |-> TRUE] : e \in KmsFaults}

\* The answers a.store.Get(key) can give over contents st.
StoreGet(st, key) ==
    {IF key \in DOMAIN st
     THEN [val |-> st[key], err |-> Nil, fault |-> FALSE]
     ELSE [val |-> NoBlob, err |-> <<"key not found">>, fault |-> FALSE]}
    \cup {[val |-> NoBlob, err |-> e, fault |-> TRUE] : e \in StoreGetFaults}

\* The answers a.store.Set(key, val) can give: the contents after, and the error.
StoreSet(st, key, val) ==
    {[st |-> [x \in DOMAIN st \cup {key} |-> IF x = key THEN val ELSE st[x]],
      err |-> Nil, fault |-> FALSE]}
    \cup {[st |-> st, err |-> e, fault |-> TRUE] : e \in StoreSetFaults}

(***************************************************************************)
(* The decorator's own code                                                *)
(***************************************************************************)

\* A returned ([]byte, error) pair; Set returns the error alone.
Fail(err) == [val |-> << >>, isNil |-> TRUE, err |-> err]
Value(v) == [val |-> v, isNil |-> FALSE, err |-> Nil]

\* Mutant of decrypt: the plaintext is returned as decrypted, untrimmed.
decryptUntrimmed(out) ==
    IF out.err # Nil
    THEN Fail(WrapIf(out.err, MsgDecrypt))
    ELSE Value(out.Plaintext)

\* Mutant of decrypt: a failed Decrypt call is answered with an empty value.
decryptMasking(out) ==
    IF out.err # Nil
    THEN Value(<< >>)
    ELSE Value(TrimSpace(out.Plaintext))

\* decrypt, after the Decrypt call answered out: (plaintext, error).
decrypt(out) ==
    IF out.err # Nil
    THEN Fail(WrapIf(out.err, MsgDecrypt))
    ELSE Value(TrimSpace(out.Plaintext))

\* Mutant of encrypt: the Encrypt call's error is returned without the message.
encryptUnwrapped(out) ==
    IF out.err # Nil
    THEN [val |-> NoBlob, err |-> out.err]
    ELSE [val |-> out.CiphertextBlob, err |-> Nil]

\* encrypt, after the Encrypt call answered out: (ciphertext, error).
encrypt(out) ==
    IF out.err # Nil
    THEN [val |-> NoBlob, err |-> WrapIf(out.err, MsgEncrypt)]
    ELSE [val |-> out.CiphertextBlob, err |-> Nil]

\* Mutant of GetAfterStore: the inner store's error is not checked.
GetAfterStoreIgnoringError(r) ==
    [pc |-> "decrypt", cipherText |-> r.val, ret |-> Fail(Nil)]

\* Get, after a.store.Get answered r: return the wrapped error, or go on to decrypt.
GetAfterStore(r) ==
    IF r.err # Nil
    THEN [pc |-> "done", cipherText |-> NoBlob, ret |-> Fail(WrapIf(r.err, MsgGet))]
    ELSE [pc |-> "decrypt", cipherText |-> r.val, ret |-> Fail(Nil)]

\* Mutant of SetAfterEncrypt: encrypt's error is not checked.
SetAfterEncryptIgnoringError(e) ==
    [pc |-> "store_set", cipherText |-> e.val, ret |-> Fail(Nil)]

\* Set, after encrypt returned e: return its error, or go on to a.store.Set.
SetAfterEncrypt(e) ==
    IF e.err # Nil
    THEN [pc |-> "done", cipherText |-> NoBlob, ret |-> Fail(e.err)]
    ELSE [pc |-> "store_set", cipherText |-> e.val, ret |-> Fail(Nil)]

\* Mutant of GetAfterDecrypt: a failed decrypt is tried again.
GetAfterDecryptRetry(d) ==
    [pc |-> IF d.err # Nil THEN "decrypt" ELSE "done", ret |-> d]

\* Get's last line, return a.decrypt(cipherText): the call ends with d.
GetAfterDecrypt(d) == [pc |-> "done", ret |-> d]

\* Mutant of StoreSetArgs: the ciphertext is stored under one fixed key.
StoreSetArgsFixedKey(key, cipherText) == [key |-> "k1", val |-> cipherText]

\* Mutant of StoreSetArgs: the ciphertext is altered on its way to the store.
StoreSetArgsAltered(key, cipherText) ==
    [key |-> key, val |-> Blob(cipherText.key, TrimSpace(cipherText.pt), cipherText.ctx)]

\* The arguments of Set's call a.store.Set(key, cipherText).
StoreSetArgs(key, cipherText) == [key |-> key, val |-> cipherText]

\* Set's result: whatever a.store.Set returned, unchanged.
SetAfterStore(r) == Fail(r.err)

(***************************************************************************)
(* State                                                                   *)
(***************************************************************************)

VARIABLES
    svc,      \* the awsKMS instances, by slot
    store,    \* the contents of the inner store the instances share
    call,     \* per goroutine: the Get or Set it is in, and what that call did
    lastSet,  \* per key: the plaintext and instance of the last Set that stored
    ctor      \* the last constructor call and what it returned

vars == <<svc, store, call, lastSet, ctor>>

NoSet == [ok |-> FALSE, val |-> << >>, a |-> NoSvc]

\* A goroutine outside any call.
IdleCall ==
    [op |-> "none", inst |-> "i1", key |-> "k1", val |-> << >>,
     pc |-> "idle", cipherText |-> NoBlob, ret |-> Fail(Nil),
     innerGets |-> << >>, innerSets |-> << >>,
     decryptReqs |-> << >>, encryptReqs |-> << >>,
     stage |-> "none", cause |-> Nil, fault |-> FALSE, seen |-> NoSet,
     fetched |-> FALSE, getOut |-> NoBlob, encOut |-> NoBlob]

NoCtor ==
    [fn |-> "none", sess |-> NilSession, store |-> "nil", region |-> "",
     kmsID |-> "", encryptionContext |-> NilMap, sessErr |-> Nil,
     outcome |-> "none", ret |-> NoSvc, err |-> Nil]

\* The instances the callers share: built by NewWithSession over store s1.
Built(kmsID, ctx) == NewWithSession(Session("eu-west-1"), "s1", kmsID, ctx).ret

\* Slot i2 differs from slot i1 in key identifier and in encryption context.
InitSvc ==
    [i \in Inst |-> IF i = "i1" THEN Built("alias/test-key", CtxA)
                                ELSE Built("alias/other-key", CtxB)]

Init ==
    /\ svc = InitSvc
    /\ store = EmptyFn
    /\ call = [p \in Procs |-> IdleCall]
    /\ lastSet = [k \in Keys |-> NoSet]
    /\ ctor = NoCtor

(***************************************************************************)
(* Get and Set, one collaborator call per step                             *)
(***************************************************************************)

Free(p) == call[p].pc \in {"idle", "done"}

\* A goroutine enters Get(key) on instance i.
GetCall(p, i, k) ==
    /\ Free(p)
    /\ call' = [call EXCEPT ![p] =
                  [IdleCall EXCEPT !.op = "Get", !.inst = i, !.key = k, !.pc = "store_get"]]
    /\ UNCHANGED <<svc, store, lastSet, ctor>>

\* cipherText, err := a.store.Get(key), and the early return on error.
GetStore(p) ==
    /\ call[p].op = "Get" /\ call[p].pc = "store_get"
    /\ \E r \in StoreGet(store, call[p].key) :
         LET n == GetAfterStore(r)
         IN  call' = [call EXCEPT ![p] =
                        [@ EXCEPT !.pc = n.pc, !.cipherText = n.cipherText, !.ret = n.ret,
                                  !.innerGets = Append(@, call[p].key),
                                  !.stage = IF r.err # Nil THEN "inner-get" ELSE @,
                                  !.cause = r.err,
                                  !.fault = r.fault,
                                  !.seen = IF r.err = Nil THEN lastSet[call[p].key] ELSE @,
                                  !.fetched = (r.err = Nil),
                                  !.getOut = r.val]]
    /\ UNCHANGED <<svc, store, lastSet, ctor>>

\* return a.decrypt(cipherText): the Decrypt call and what decrypt makes of it.
GetDecrypt(p) ==
    /\ call[p].op = "Get" /\ call[p].pc = "decrypt"
    /\ LET in == DecryptInput(svc[call[p].inst], call[p].cipherText)
       IN  \E out \in KmsDecrypt(in) :
             LET n == GetAfterDecrypt(decrypt(out))
             IN  call' = [call EXCEPT ![p] =
                        [@ EXCEPT !.pc = n.pc, !.ret = n.ret,
                                  !.decryptReqs = Append(@, in),
                                  !.stage = IF out.err # Nil THEN "remote-decrypt" ELSE @,
                                  !.cause = out.err,
                                  !.fault = out.fault]]
    /\ UNCHANGED <<svc, store, lastSet, ctor>>

\* A goroutine enters Set(key, val) on instance i.
SetCall(p, i, k, v) ==
    /\ Free(p)
    /\ call' = [call EXCEPT ![p] =
                  [IdleCall EXCEPT !.op = "Set", !.inst = i, !.key = k, !.val = v,
                                   !.pc = "encrypt"]]
    /\ UNCHANGED <<svc, store, lastSet, ctor>>

\* cipherText, err := a.encrypt(val), and the early return on error.
SetEncrypt(p) ==
    /\ call[p].op = "Set" /\ call[p].pc = "encrypt"
    /\ LET in == EncryptInput(svc[call[p].inst], call[p].val)
       IN  \E out \in KmsEncrypt(in) :
             LET n == SetAfterEncrypt(encrypt(out))
             IN  call' = [call EXCEPT ![p] =
                            [@ EXCEPT !.pc = n.pc, !.cipherText = n.cipherText, !.ret = n.ret,
                                      !.encryptReqs = Append(@, in),
                                      !.stage = IF out.err # Nil THEN "remote-encrypt" ELSE @,
                                      !.cause = out.err,
                                      !.fault = out.fault,
                                      !.encOut = out.CiphertextBlob]]
    /\ UNCHANGED <<svc, store, lastSet, ctor>>

\* return a.store.Set(key, cipherText).
SetStore(p) ==
    /\ call[p].op = "Set" /\ call[p].pc = "store_set"
    /\ LET args == StoreSetArgs(call[p].key, call[p].cipherText)
       IN  \E r \in StoreSet(store, args.key, args.val) :
             /\ store' = r.st
             /\ call' = [call EXCEPT ![p] =
                           [@ EXCEPT !.pc = "done", !.ret = SetAfterStore(r),
                                     !.innerSets = Append(@, args),
                                     !.stage = IF r.err # Nil THEN "inner-set" ELSE @,
                                     !.cause = r.err,
                                     !.fault = r.fault]]
             /\ lastSet' = IF r.err = Nil
                           THEN [lastSet EXCEPT ![args.key] =
                                   [ok |-> TRUE, val |-> call[p].val, a |-> svc[call[p].inst]]]
                           ELSE lastSet
    /\ UNCHANGED <<svc, ctor>>

\* The steps of goroutine p, its Set calls drawing plaintexts from vals.
Step(p, vals) ==
    \/ \E i \in Inst, k \in Keys : GetCall(p, i, k)
    \/ GetStore(p)
    \/ GetDecrypt(p)
    \/ \E i \in Inst, k \in Keys, v \in vals : SetCall(p, i, k, v)
    \/ SetEncrypt(p)
    \/ SetStore(p)

\* One caller, every plaintext up to MaxLen.
Next == Step("p1", Plaintexts)

Spec == Init /\ [][Next]_vars

\* Concurrent callers; two plaintexts suffice to tell their calls apart.
ConcPlaintexts == {<<97>>, <<32, 97>>}

NextConc == \E p \in Procs : Step(p, ConcPlaintexts)

SpecConc == Init /\ [][NextConc]_vars

(***************************************************************************)
(* Construction as a step: a caller runs a constructor                     *)
(***************************************************************************)

CallNewWithSession(sess, st, kmsID, ctx) ==
    LET r == NewWithSession(sess, st, kmsID, ctx)
    IN  /\ ctor' = [fn |-> "NewWithSession", sess |-> sess, store |-> st,
                    region |-> "", kmsID |-> kmsID, encryptionContext |-> ctx,
                    sessErr |-> Nil, outcome |-> r.outcome, ret |-> r.ret, err |-> r.err]
        /\ UNCHANGED <<svc, store, call, lastSet>>

CallNew(st, region, kmsID, ctx, sessErr) ==
    LET r == New(st, region, kmsID, ctx, sessErr)
    IN  /\ ctor' = [fn |-> "New", sess |-> NilSession, store |-> st,
                    region |-> region, kmsID |-> kmsID, encryptionContext |-> ctx,
                    sessErr |-> sessErr, outcome |-> r.outcome, ret |-> r.ret, err |-> r.err]
        /\ UNCHANGED <<svc, store, call, lastSet>>

NextCtor ==
    \E st \in Stores, kmsID \in KmsIDs, ctx \in Contexts :
        \/ \E sess \in Sessions : CallNewWithSession(sess, st, kmsID, ctx)
        \/ \E region \in Regions, sessErr \in SessionErrs :
               CallNew(st, region, kmsID, ctx, sessErr)

SpecCtor == Init /\ [][NextCtor]_vars

(***************************************************************************)
(* Properties                                                              *)
(***************************************************************************)

Done(p) == call[p].pc = "done"
Failed(p) == Done(p) /\ call[p].ret.err # Nil

\* r is v with its leading and trailing whitespace removed: v is whitespace,
\* then r, then whitespace, and r neither starts nor ends with whitespace.
IsTrimOf(r, v) ==
    \E i \in 1..(Len(v) + 1) : \E j \in (i - 1)..Len(v) :
        /\ r = SubSeq(v, i, j)
        /\ \A x \in 1..(i - 1) : v[x] \in AsciiSpace
        /\ \A x \in (j + 1)..Len(v) : v[x] \in AsciiSpace
        /\ r # << >> => (r[1] \notin AsciiSpace /\ r[Len(r)] \notin AsciiSpace)

\* The instance of call c is configured like the instance whose Set stored
\* the value the call read.
SameConfig(c) ==
    /\ c.seen.a.kmsID = svc[c.inst].kmsID
    /\ c.seen.a.encryptionContext = svc[c.inst].encryptionContext

\* C1: round trip.  A Get(k) that read what the last successful Set(k, v)
\* stored, through an instance with the same key identifier and encryption
\* context, with neither the inner store nor the remote service failing,
\* succeeds and returns v with leading and trailing whitespace removed.
C1_RoundTrip ==
    \A p \in Procs :
        (/\ call[p].op = "Get" /\ Done(p)
         /\ call[p].seen.ok /\ ~call[p].fault /\ SameConfig(call[p]))
        => /\ call[p].ret.err = Nil
           /\ ~call[p].ret.isNil
           /\ IsTrimOf(call[p].ret.val, call[p].seen.val)

\* A round trip whose result is non-empty and differs from what was Set.
C1_Witness ==
    \E p \in Procs :
        /\ call[p].op = "Get" /\ Done(p)
        /\ call[p].seen.ok /\ ~call[p].fault /\ SameConfig(call[p])
        /\ call[p].ret.val # << >>
        /\ call[p].ret.val # call[p].seen.val

\* C2: when the Encrypt call of a Set fails, the Set has returned an error
\* and made no call to the inner store's Set, and the step in which the
\* Encrypt call fails leaves the inner store's contents as they were.
C2_EncryptFailureIsolated ==
    /\ [](\A p \in Procs :
            (call[p].op = "Set" /\ call[p].stage = "remote-encrypt")
            => /\ Failed(p)
               /\ call[p].innerSets = << >>)
    /\ [][\A p \in Procs :
            (call[p].pc = "encrypt" /\ call'[p].stage = "remote-encrypt")
            => store' = store]_vars

\* A Set whose Encrypt failed, on a key the inner store holds a value for.
C2_Witness ==
    \E p \in Procs :
        /\ call[p].op = "Set" /\ call[p].stage = "remote-encrypt" /\ Done(p)
        /\ call[p].key \in DOMAIN store

\* C3: when the inner store's Get fails, the Get has returned an error and
\* no value and has made no Decrypt call; a Decrypt call is made only once
\* the inner store has returned a value.
C3_GetFailureIsolated ==
    \A p \in Procs :
        /\ (call[p].op = "Get" /\ call[p].stage = "inner-get")
           => /\ Failed(p)
              /\ call[p].ret.isNil
              /\ call[p].decryptReqs = << >>
        /\ (call[p].op = "Get" /\ (call[p].decryptReqs # << >> \/ call[p].pc = "decrypt"))
           => call[p].fetched

\* A Get that failed in the inner store although the key holds a value.
C3_Witness ==
    \E p \in Procs :
        /\ call[p].op = "Get" /\ call[p].stage = "inner-get" /\ Done(p)
        /\ call[p].key \in DOMAIN store

\* C4: a constructor called with an empty key identifier returns a
\* configuration error naming the identifier, and a nil service.
C4_EmptyKmsIDRejected ==
    (ctor.fn # "none" /\ ctor.kmsID = "")
    => /\ ctor.outcome = "error"
       /\ ctor.err = InvalidKmsID(ctor.kmsID)
       /\ ctor.ret = NoSvc

\* The stage a wrapping message of the decorator names.
StageOfMsg(m) ==
    CASE m = MsgGet -> "inner-get"
      [] m = MsgDecrypt -> "remote-decrypt"
      [] m = MsgEncrypt -> "remote-encrypt"
      [] OTHER -> "none"

WrapMsgs == {MsgGet, MsgDecrypt, MsgEncrypt}

\* C5 as stated: every failed Get or Set returns the failing collaborator's
\* error under one wrapping message of the decorator, and that message
\* names the stage that failed.
C5_EveryFailureWrapped ==
    \A p \in Procs :
        Failed(p)
        => \E m \in WrapMsgs :
             /\ call[p].ret.err = <<m>> \o call[p].cause
             /\ StageOfMsg(m) = call[p].stage

\* C5 as amended: failures of the inner Get, the Decrypt and the Encrypt
\* come back under that stage's message, the three messages differ, and a
\* failure of the inner Set comes back as the inner store returned it.
C5_FailureStages ==
    /\ Cardinality(WrapMsgs) = 3
    /\ \A p \in Procs :
         Failed(p)
         => /\ call[p].cause # Nil
            /\ call[p].stage \in {"inner-get", "remote-decrypt", "remote-encrypt", "inner-set"}
            /\ call[p].stage # "inner-set"
               => \E m \in WrapMsgs :
                    /\ call[p].ret.err = <<m>> \o call[p].cause
                    /\ StageOfMsg(m) = call[p].stage
            /\ call[p].stage = "inner-set"
               => call[p].ret.err = call[p].cause

\* A Set that failed in the inner store with an error that reads like the
\* decorator's own Encrypt failure.
C5_Witness ==
    \E p \in Procs :
        /\ Failed(p) /\ call[p].stage = "inner-set"
        /\ Head(call[p].ret.err) = MsgEncrypt

\* C6 as stated: every finished Get made exactly one Decrypt call and one
\* inner-store call, every finished Set exactly one Encrypt call and one
\* inner-store call.
C6_ExactlyOneEach ==
    \A p \in Procs :
        Done(p)
        => /\ Len(call[p].innerGets) + Len(call[p].innerSets) = 1
           /\ Len(call[p].decryptReqs) + Len(call[p].encryptReqs) = 1

\* C6 as amended: no call is made twice; a finished Get made one inner Get,
\* and one Decrypt call exactly when the inner Get returned a value; a
\* finished Set made one Encrypt call, and one inner Set exactly when the
\* Encrypt call succeeded; a Get makes no Encrypt or inner Set, a Set no
\* Decrypt or inner Get.
C6_CallCounts ==
    \A p \in Procs :
        LET c == call[p]
        IN  /\ Len(c.innerGets) <= 1 /\ Len(c.innerSets) <= 1
            /\ Len(c.decryptReqs) <= 1 /\ Len(c.encryptReqs) <= 1
            /\ (Done(p) /\ c.op = "Get")
               => /\ Len(c.innerGets) = 1
                  /\ Len(c.decryptReqs) = (IF c.fetched THEN 1 ELSE 0)
                  /\ c.encryptReqs = << >> /\ c.innerSets = << >>
            /\ (Done(p) /\ c.op = "Set")
               => /\ Len(c.encryptReqs) = 1
                  /\ Len(c.innerSets) = (IF c.stage = "remote-encrypt" THEN 0 ELSE 1)
                  /\ c.decryptReqs = << >> /\ c.innerGets = << >>

\* A finished Get that made no Decrypt call, and a finished Set that made
\* no inner-store call.
C6_Witness ==
    /\ \E p \in Procs :
         Done(p) /\ call[p].op = "Get" /\ call[p].decryptReqs = << >>
    /\ \E p \in Procs :
         Done(p) /\ call[p].op = "Set" /\ call[p].innerSets = << >>

\* C7: what a Set writes to the inner store under its key is the ciphertext
\* the Encrypt call returned, and what a Get hands to the Decrypt call is
\* the value the inner store returned.
C7_CiphertextVerbatim ==
    \A p \in Procs :
        LET c == call[p]
        IN  /\ \A n \in 1..Len(c.innerSets) :
                 c.innerSets[n] = [key |-> c.key, val |-> c.encOut]
            /\ \A n \in 1..Len(c.decryptReqs) :
                 c.decryptReqs[n].CiphertextBlob = c.getOut
            /\ (Done(p) /\ c.op = "Set" /\ c.ret.err = Nil)
               => c.innerSets # << >>

\* A Get that handed a stored ciphertext to the Decrypt call.
C7_Witness ==
    \E p \in Procs :
        /\ call[p].op = "Get" /\ Done(p)
        /\ call[p].decryptReqs # << >>
        /\ call[p].getOut # NoBlob
        /\ call[p].getOut.pt # << >>

\* C8: a Get through an instance whose encryption context differs from the
\* context of the instance whose Set stored the value returns the Decrypt
\* call's failure under the decrypt message, and no value.
C8_ContextMismatchFails ==
    \A p \in Procs :
        (/\ call[p].op = "Get" /\ Done(p) /\ call[p].seen.ok
         /\ call[p].seen.a.encryptionContext # svc[call[p].inst].encryptionContext)
        => /\ call[p].ret.err = <<MsgDecrypt>> \o call[p].cause
           /\ call[p].cause # Nil
           /\ call[p].ret.isNil
           /\ call[p].ret.val = << >>

\* A Get under another context that the service itself rejected.
C8_Witness ==
    \E p \in Procs :
        /\ call[p].op = "Get" /\ Done(p) /\ call[p].seen.ok
        /\ call[p].seen.a.encryptionContext # svc[call[p].inst].encryptionContext
        /\ ~call[p].fault
        /\ call[p].ret.err # Nil

\* C9: under any interleaving of calls the instances stay as constructed,
\* every Encrypt request carries the instance's key identifier and
\* encryption context, every Decrypt request that encryption context, and
\* both carry no grant tokens.
C9_ConfigImmutable ==
    /\ svc = InitSvc
    /\ \A p \in Procs :
         LET c == call[p]
         IN  /\ \A n \in 1..Len(c.encryptReqs) :
                  /\ c.encryptReqs[n].KeyId = InitSvc[c.inst].kmsID
                  /\ c.encryptReqs[n].EncryptionContext = InitSvc[c.inst].encryptionContext
                  /\ c.encryptReqs[n].GrantTokens = << >>
             /\ \A n \in 1..Len(c.decryptReqs) :
                  /\ c.decryptReqs[n].EncryptionContext = InitSvc[c.inst].encryptionContext
                  /\ c.decryptReqs[n].GrantTokens = << >>

\* Two goroutines inside calls on the same instance, one having sent its
\* Encrypt request, the other about to send its Decrypt request.
C9_Witness ==
    \E p \in Procs, q \in Procs :
        /\ p # q /\ call[p].inst = call[q].inst
        /\ call[p].pc = "store_set" /\ call[p].encryptReqs # << >>
        /\ call[q].pc = "decrypt"

\* The keys whose stored value a step changes.
Changed ==
    {k \in Keys : \/ (k \in DOMAIN store) # (k \in DOMAIN store')
                  \/ (k \in DOMAIN store /\ k \in DOMAIN store' /\ store[k] # store'[k])}

\* C10: a Get calls the inner store's Get with its own key only and never
\* its Set, and no step of a Get changes the inner store; a Set calls the
\* inner store's Set with its own key only, so a stored value changes only
\* in the inner-Set step of a Set on that key.
C10_Frame ==
    /\ [](\A p \in Procs :
            /\ call[p].op = "Get"
               => /\ call[p].innerSets = << >>
                  /\ \A n \in 1..Len(call[p].innerGets) : call[p].innerGets[n] = call[p].key
            /\ call[p].op = "Set"
               => /\ call[p].innerGets = << >>
                  /\ \A n \in 1..Len(call[p].innerSets) :
                       call[p].innerSets[n].key = call[p].key)
    /\ [][/\ \A p \in Procs :
               (call[p].pc \in {"store_get", "decrypt"} /\ call'[p] # call[p])
               => store' = store
          /\ \A k \in Changed :
               \E p \in Procs :
                   /\ call[p].op = "Set" /\ call[p].pc = "store_set"
                   /\ call[p].key = k /\ call'[p].pc = "done"]_vars

\* A Set on one key has stored while the other key holds a value, and
\* another goroutine is inside a Get.
C10_Witness ==
    \E p \in Procs, q \in Procs :
        /\ call[p].op = "Set" /\ Done(p) /\ call[p].ret.err = Nil
        /\ DOMAIN store = Keys
        /\ call[q].op = "Get" /\ call[q].pc = "decrypt"

====
